---- MODULE Spec2Model ----
(***************************************************************************)
(* A model of the scattering simulation of reflection_model:               *)
(*   utils/physics  generateSurfaceProfile, generateSurfaceProfile3D,      *)
(*                  calculateScattering, calculateEnergyConcentration      *)
(*   services       analyzeSurfaceModel                                    *)
(*   App            updateVisualization, energyStats, exportBRDF, the      *)
(*                  roughness controls, handleAIAnalysis                   *)
(*                                                                         *)
(* NUMBERS.  A JavaScript number is modelled as a decimal floating-point   *)
(* value [m |-> mantissa, e |-> exponent] standing for m * 10^e, with a    *)
(* mantissa of Prec digits, every operation rounded to nearest, and the    *)
(* exponent range of an IEEE double (results below the smallest positive   *)
(* double are 0).  Infinity and NaN are not modelled as numbers: no        *)
(* arithmetic of the model produces them (parseFloat has its own NaN).     *)
(* Where the sweep evaluates its body, its angles are kept exactly, as an  *)
(* integer count of 10^-5 degree, which is what the doubles of the code    *)
(* hold for the whole-degree steps used there; SpecLoop follows the loop   *)
(* variable alone, as a number that a += step rounds.  Math.cos and        *)
(* Math.tan are modelled by their values on a 1 degree grid, with the      *)
(* value an IEEE double gives at a right angle:                            *)
(* Math.cos(90 * Math.PI / 180) = 6.123e-17, not 0.                        *)
(***************************************************************************)
EXTENDS Integers, Sequences, FiniteSets, TLC

(***************************************************************************)
(* Decimal floating point                                                  *)
(***************************************************************************)
Prec == 4

RECURSIVE Pow10(_)
Pow10(n) == IF n <= 0 THEN 1 ELSE 10 * Pow10(n - 1)

Abs(x) == IF x < 0 THEN -x ELSE x

Sgn(x) == IF x < 0 THEN -1 ELSE IF x = 0 THEN 0 ELSE 1

Min(x, y) == IF x < y THEN x ELSE y

RECURSIVE NumDigits(_)
NumDigits(n) == IF n < 10 THEN 1 ELSE 1 + NumDigits(n \div 10)

\* n / d rounded to the nearest integer, halves away from zero (n >= 0, d > 0)
RoundDiv(n, d) == (n + d \div 2) \div d

Zero == [m |-> 0, e |-> 0]

F(m, e) == [m |-> m, e |-> e]

\* the smallest positive double is 4.9e-324: anything below is 0
Flush(x) == IF x.e + Prec - 1 < -324 THEN Zero ELSE x

\* the float nearest to m * 10^e
Norm(m, e) ==
    IF m = 0 THEN Zero
    ELSE LET a == Abs(m)
             k == NumDigits(a) - Prec
         IN  IF k <= 0
             THEN Flush([m |-> Sgn(m) * a * Pow10(-k), e |-> e + k])
             ELSE LET r == RoundDiv(a, Pow10(k))
                  IN  IF r = Pow10(Prec)
                      THEN Flush([m |-> Sgn(m) * Pow10(Prec - 1), e |-> e + k + 1])
                      ELSE Flush([m |-> Sgn(m) * r, e |-> e + k])

FromInt(n) == Norm(n, 0)

FNeg(x) == [m |-> -x.m, e |-> x.e]

FMul(x, y) == Norm(x.m * y.m, x.e + y.e)

\* y # 0
FDiv(x, y) ==
    Norm(Sgn(x.m) * Sgn(y.m) * ((Abs(x.m) * Pow10(Prec + 1)) \div Abs(y.m)),
         x.e - y.e - (Prec + 1))

FAdd(x, y) ==
    IF x.m = 0 THEN y
    ELSE IF y.m = 0 THEN x
    ELSE IF x.e - y.e > Prec + 1 THEN x
    ELSE IF y.e - x.e > Prec + 1 THEN y
    ELSE LET e == Min(x.e, y.e)
         IN  Norm(x.m * Pow10(x.e - e) + y.m * Pow10(y.e - e), e)

FSub(x, y) == FAdd(x, FNeg(y))

\* comparisons are exact: both operands are floats
FLt(x, y) ==
    IF Sgn(x.m) # Sgn(y.m) THEN Sgn(x.m) < Sgn(y.m)
    ELSE IF x.m = 0 THEN FALSE
    ELSE IF x.e # y.e THEN (IF x.m > 0 THEN x.e < y.e ELSE x.e > y.e)
    ELSE x.m < y.m

FGt(x, y) == FLt(y, x)

FLe(x, y) == ~FLt(y, x)

FGe(x, y) == ~FLt(x, y)

FMax(x, y) == IF FLt(x, y) THEN y ELSE x

FSq(x) == FMul(x, x)

\* Math.floor of a float, as an integer (|x| < 10^9)
Floor(x) ==
    IF x.e >= 0 THEN x.m * Pow10(x.e)
    ELSE IF -x.e > 9 THEN (IF x.m < 0 THEN -1 ELSE 0)
    ELSE x.m \div Pow10(-x.e)

\* x * 10^d rounded to the nearest integer (|x| * 10^d < 2 * 10^9)
Scaled(x, d) ==
    IF x.e + d >= 0 THEN x.m * Pow10(x.e + d)
    ELSE IF -(x.e + d) > 9 THEN 0
    ELSE Sgn(x.m) * RoundDiv(Abs(x.m), Pow10(-(x.e + d)))

RECURSIVE ISqrtFrom(_, _)
ISqrtFrom(n, r) ==
    LET s == (r + n \div r) \div 2
    IN  IF s >= r THEN r ELSE ISqrtFrom(n, s)

\* the integer square root of n >= 0
ISqrt(n) == IF n < 2 THEN n ELSE ISqrtFrom(n, n)

\* Math.sqrt, x >= 0
FSqrt(x) ==
    IF x.m = 0 THEN Zero
    ELSE LET odd == (x.e % 2) # 0
             mm  == IF odd THEN x.m * 10 ELSE x.m
             ee  == IF odd THEN x.e - 1 ELSE x.e
         IN  Norm(ISqrt(mm * Pow10(Prec)), (ee - Prec) \div 2)

\* exp(r / 10^4) * 10^4 for 0 <= r < 10^4 * ln 10, by its Taylor series
RECURSIVE ExpSeries(_, _, _, _)
ExpSeries(r, n, term, sum) ==
    IF term = 0 THEN sum
    ELSE ExpSeries(r, n + 1, (term * r) \div (n * 10000), sum + term)

\* Math.exp: exp(x) = 10^k * exp(f * ln 10), x * log10(e) = k + f
FExp(x) ==
    IF FLt(x, F(-7452, -1)) THEN Zero
    ELSE LET t == Scaled(FMul(x, F(4343, -4)), 4)
             k == t \div 10000
             f == t % 10000
             r == (f * 23026) \div 10000
         IN  Norm(ExpSeries(r, 1, 10000, 0), k - 4)

(***************************************************************************)
(* Angles, and Math.cos / Math.tan on the 1 degree grid                    *)
(***************************************************************************)
\* one degree, in the unit of the angles (10^-5 degree)
Deg == Pow10(5)

Pi == F(3142, -3)

\* the angle x (in 10^-5 degree) as a number of degrees
FromAngle(x) == Norm(x, -5)

\* x.toFixed(d) of an angle: the decimal string, as a count of 10^-d degree
AngleToFixed(x, d) == Sgn(x) * RoundDiv(Abs(x), Pow10(5 - d))

\* Number(s) of such a string
AngleOfFixed(n, d) == n * Pow10(5 - d)

\* x.toFixed(d) of a number: the decimal string, as a count of 10^-d
ToFixed(x, d) == Scaled(x, d)

\* Number(s) / parseFloat(s) of such a string
NumberOfFixed(n, d) == Norm(n, -d)

\* cos of 0, 1, ..., 90 degrees; the last is Math.cos(Math.PI / 2)
CosTable ==
    << F(1000, -3), F(9998, -4), F(9994, -4), F(9986, -4), F(9976, -4),
       F(9962, -4), F(9945, -4), F(9925, -4), F(9903, -4), F(9877, -4),
       F(9848, -4), F(9816, -4), F(9781, -4), F(9744, -4), F(9703, -4),
       F(9659, -4), F(9613, -4), F(9563, -4), F(9511, -4), F(9455, -4),
       F(9397, -4), F(9336, -4), F(9272, -4), F(9205, -4), F(9135, -4),
       F(9063, -4), F(8988, -4), F(8910, -4), F(8829, -4), F(8746, -4),
       F(8660, -4), F(8572, -4), F(8480, -4), F(8387, -4), F(8290, -4),
       F(8192, -4), F(8090, -4), F(7986, -4), F(7880, -4), F(7771, -4),
       F(7660, -4), F(7547, -4), F(7431, -4), F(7314, -4), F(7193, -4),
       F(7071, -4), F(6947, -4), F(6820, -4), F(6691, -4), F(6561, -4),
       F(6428, -4), F(6293, -4), F(6157, -4), F(6018, -4), F(5878, -4),
       F(5736, -4), F(5592, -4), F(5446, -4), F(5299, -4), F(5150, -4),
       F(5000, -4), F(4848, -4), F(4695, -4), F(4540, -4), F(4384, -4),
       F(4226, -4), F(4067, -4), F(3907, -4), F(3746, -4), F(3584, -4),
       F(3420, -4), F(3256, -4), F(3090, -4), F(2924, -4), F(2756, -4),
       F(2588, -4), F(2419, -4), F(2250, -4), F(2079, -4), F(1908, -4),
       F(1736, -4), F(1564, -4), F(1392, -4), F(1219, -4), F(1045, -4),
       F(8716, -5), F(6976, -5), F(5234, -5), F(3490, -5), F(1745, -5),
       F(6123, -20) >>

\* Math.cos((x * Math.PI) / 180), x a whole number of degrees in [-180, 180]
MathCos(x) ==
    LET i == Abs(x) \div Deg
    IN  IF i <= 90 THEN CosTable[i + 1] ELSE FNeg(CosTable[180 - i + 1])

MathSin(x) ==
    IF x = 0 THEN Zero
    ELSE LET c == MathCos(90 * Deg - Abs(x))
         IN  IF x < 0 THEN FNeg(c) ELSE c

\* Math.tan of the difference x of two angles
MathTan(x) == IF x = 0 THEN Zero ELSE FDiv(MathSin(x), MathCos(x))

(***************************************************************************)
(* utils/physics: calculateScattering                                      *)
(***************************************************************************)
ModelTypes == {"Auto", "Beckmann", "Rayleigh-Rice", "Harvey-Shack"}

\* const sigma = ra * 1.25
Sigma(ra) == FMul(ra, F(1250, -3))

\* const safeLambda = Math.max(0.0001, lambda)
SafeLambda(lambda) == FMax(F(1000, -7), lambda)

\* const g = Math.pow((4 * Math.PI * sigma * Math.cos(thetaRad)) / safeLambda, 2)
GParam(ra, lambda, thetaInc) ==
    FSq(FDiv(FMul(FMul(FMul(FromInt(4), Pi), Sigma(ra)), MathCos(thetaInc)),
             SafeLambda(lambda)))

\* a model in which the first boundary belongs to Rayleigh-Rice
ResolveModelInclusive(modelType, g) ==
    IF modelType = "Auto"
    THEN IF FLe(g, F(1000, -5)) THEN "Rayleigh-Rice"
         ELSE IF FGt(g, FromInt(15)) THEN "Beckmann"
         ELSE "Harvey-Shack"
    ELSE modelType

\* let activeModel = modelType; if (activeModel === 'Auto') { ... }
ResolveModel(modelType, g) ==
    IF modelType = "Auto"
    THEN IF FLt(g, F(1000, -5)) THEN "Rayleigh-Rice"
         ELSE IF FGt(g, FromInt(15)) THEN "Beckmann"
         ELSE "Harvey-Shack"
    ELSE modelType

\* the branch of the sweep's if / else if / else that activeModel takes
Branch(activeModel) ==
    IF activeModel = "Rayleigh-Rice" THEN "Rayleigh-Rice"
    ELSE IF activeModel = "Beckmann" THEN "Beckmann"
    ELSE "Harvey-Shack"

\* Math.pow(x, 4)
Pow4(x) == FSq(FSq(x))

\* Math.pow(x, 1.5), x >= 0
Pow15(x) == FMul(x, FSqrt(x))

\* the Rayleigh-Rice branch
RayleighRice(p, st, g, x) ==
    LET diff      == FromAngle(Abs(x - p.thetaInc))
        peakWidth == FMax(FMul(FromAngle(st), FromInt(2)),
                          FMul(F(2000, -4),
                               FDiv(p.lambda,
                                    FMax(F(1000, -8), FMul(p.ra, FromInt(1000))))))
        specular  == FMul(FExp(FNeg(g)), FExp(FNeg(FSq(FDiv(diff, peakWidth)))))
        diffuse   == FMul(FSub(FromInt(1), FExp(FNeg(g))), Pow4(MathCos(x)))
    IN  FAdd(specular, FMul(diffuse, F(5000, -5)))

\* the Beckmann branch
Beckmann(p, x) ==
    LET m    == FMax(F(5000, -6), FMul(FDiv(p.ra, FromInt(5)), p.slopeFactor))
        cosA == MathCos(x)
    IN  IF FGt(cosA, Zero)
        THEN LET exponent == FDiv(FNeg(FSq(MathTan(x - p.thetaInc))),
                                  FMul(FMul(FromInt(2), m), m))
             IN  FMul(FDiv(FromInt(1), FMul(FMul(FMul(Pi, m), m), Pow4(cosA))),
                      FExp(exponent))
        ELSE Zero

\* a Harvey-Shack branch whose diffuse term follows the sine of the angle
HarveyShackSine(p, g, x) ==
    LET diff  == FromAngle(Abs(x - p.thetaInc))
        spec  == FMul(FExp(FNeg(g)),
                      FExp(FNeg(FSq(FDiv(diff, FMul(F(1500, -3), p.slopeFactor))))))
        diffu == FMul(FSub(FromInt(1), FExp(FNeg(g))), Pow15(MathSin(Abs(x))))
    IN  FAdd(spec, FMul(diffu, F(3000, -4)))

\* the else branch (Harvey-Shack)
HarveyShack(p, g, x) ==
    LET diff  == FromAngle(Abs(x - p.thetaInc))
        spec  == FMul(FExp(FNeg(g)),
                      FExp(FNeg(FSq(FDiv(diff, FMul(F(1500, -3), p.slopeFactor))))))
        diffu == FMul(FSub(FromInt(1), FExp(FNeg(g))), Pow15(MathCos(x)))
    IN  FAdd(spec, FMul(diffu, F(3000, -4)))

\* the intensity of one iteration of the sweep, before Math.max(0, .)
Intensity(activeModel, p, st, x) ==
    LET g == GParam(p.ra, p.lambda, p.thetaInc)
    IN  IF Branch(activeModel) = "Rayleigh-Rice" THEN RayleighRice(p, st, g, x)
        ELSE IF Branch(activeModel) = "Beckmann" THEN Beckmann(p, x)
        ELSE HarveyShack(p, g, x)

\* { angle: Number(a.toFixed(4)), intensity: Math.max(0, intensity) }
Sample(activeModel, p, st, x) ==
    [angle     |-> AngleOfFixed(AngleToFixed(x, 4), 4),
     intensity |-> FMax(Zero, Intensity(activeModel, p, st, x))]

RECURSIVE ReduceMin(_, _)
ReduceMin(d, acc) ==
    IF d = <<>> THEN acc
    ELSE ReduceMin(Tail(d), IF FLt(Head(d).intensity, acc)
                            THEN Head(d).intensity ELSE acc)

\* a reduce that keeps the smaller intensity
RawMinIntensity(d) == ReduceMin(d, Zero)

RECURSIVE ReduceMax(_, _, _, _)
\* the reduce over d[lo..hi], from left to right, starting from max; the
\* accumulator of the left half is compared with max before the right half
\* starts, as it never is below it
ReduceMax(d, lo, hi, max) ==
    IF lo > hi THEN max
    ELSE IF lo = hi
    THEN IF FGt(d[lo].intensity, max) THEN d[lo].intensity ELSE max
    ELSE LET mid  == (lo + hi) \div 2
             left == ReduceMax(d, lo, mid, max)
         IN  IF FGe(left, max) THEN ReduceMax(d, mid + 1, hi, left) ELSE max

\* data.reduce((max, item) => (item.intensity > max ? item.intensity : max), 0)
RawMaxIntensity(d) == ReduceMax(d, 1, Len(d), Zero)

\* data.map(d => ({ ...d, intensity: (d.intensity / (rawMaxIntensity || 1)) * reflectivity }))
Normalized(d, reflectivity) ==
    LET rawMax  == RawMaxIntensity(d)
        divisor == IF rawMax = Zero THEN FromInt(1) ELSE rawMax
    IN  [i \in 1..Len(d) |->
            [angle     |-> d[i].angle,
             intensity |-> FMul(FDiv(d[i].intensity, divisor), reflectivity)]]

(***************************************************************************)
(* utils/physics: calculateEnergyConcentration                             *)
(***************************************************************************)
RECURSIVE Total(_)
\* data.reduce((acc, d) => acc + d.intensity, 0): ((0 + d1) + d2) + ...
Total(d) ==
    IF d = <<>> THEN Zero
    ELSE FAdd(Total(SubSeq(d, 1, Len(d) - 1)), d[Len(d)].intensity)

\* x placed in the descending sequence s behind every sample that the
\* comparator (a, b) => b.intensity - a.intensity does not put behind x
RECURSIVE Insert(_, _)
Insert(s, x) ==
    IF s = <<>> THEN <<x>>
    ELSE IF FGt(FSub(x.intensity, Head(s).intensity), Zero)
         THEN <<x>> \o s
         ELSE <<Head(s)>> \o Insert(Tail(s), x)

RECURSIVE SortDesc(_)
\* .sort((a, b) => b.intensity - a.intensity), a stable sort
SortDesc(d) ==
    IF d = <<>> THEN <<>>
    ELSE Insert(SortDesc(SubSeq(d, 1, Len(d) - 1)), d[Len(d)])

\* a sort of the array itself
SortInPlace(h, ref) == [heap |-> h, ref |-> ref]

\* [...data]: a new array holding the samples of the array ref
SpreadCopy(h, ref) == [heap |-> Append(h, h[ref]), ref |-> Len(h) + 1]

\* a threshold that a ratio must exceed
ReachedStrict(ratio, fraction) == FGt(ratio, fraction)

\* ratio >= 0.50, ratio >= 0.90, ratio >= 0.99
Reached(ratio, fraction) == FGe(ratio, fraction)

\* a loop that breaks as soon as the 50% count is set
RECURSIVE CountLoopEarlyBreak(_, _, _, _, _)
CountLoopEarlyBreak(sorted, total, i, currentSum, c) ==
    IF i > Len(sorted) THEN c
    ELSE LET sum   == FAdd(currentSum, sorted[i].intensity)
             ratio == FDiv(sum, total)
             c50   == IF c.e50 = 0 /\ Reached(ratio, F(5000, -4)) THEN i ELSE c.e50
             c90   == IF c.e90 = 0 /\ Reached(ratio, F(9000, -4)) THEN i ELSE c.e90
             c99   == IF c.e99 = 0 /\ Reached(ratio, F(9900, -4)) THEN i ELSE c.e99
             next  == [e50 |-> c50, e90 |-> c.e90, e99 |-> c.e99]
         IN  IF c50 # 0 THEN next
             ELSE CountLoopEarlyBreak(sorted, total, i + 1, sum,
                                      [e50 |-> c50, e90 |-> c90, e99 |-> c99])

\* the for loop over sorted; i is the 1-based index, so i is the code's i + 1
RECURSIVE CountLoop(_, _, _, _, _)
CountLoop(sorted, total, i, currentSum, c) ==
    IF i > Len(sorted) THEN c
    ELSE LET sum   == FAdd(currentSum, sorted[i].intensity)
             ratio == FDiv(sum, total)
             c50   == IF c.e50 = 0 /\ Reached(ratio, F(5000, -4)) THEN i ELSE c.e50
             c90   == IF c.e90 = 0 /\ Reached(ratio, F(9000, -4)) THEN i ELSE c.e90
             c99   == IF c.e99 = 0 /\ Reached(ratio, F(9900, -4)) THEN i ELSE c.e99
             next  == [e50 |-> c50, e90 |-> c90, e99 |-> c99]
         IN  IF c99 # 0 THEN next
             ELSE CountLoop(sorted, total, i + 1, sum, next)

\* Number((count * step).toFixed(4))
Width(count, st) == NumberOfFixed(ToFixed(FMul(FromInt(count), st), 4), 4)

\* one sample's width as the statistics of an empty distribution
OneSampleStats(st) == [e50 |-> Width(1, st), e90 |-> Width(1, st), e99 |-> Width(1, st)]

\* return { e50: 0, e90: 0, e99: 0 }
ZeroStats(st) == [e50 |-> Zero, e90 |-> Zero, e99 |-> Zero]

\* calculateEnergyConcentration(data, step) on the heap h: the heap it leaves
\* and the statistics it returns
CalculateEnergyConcentration(h, ref, st) ==
    LET total == Total(h[ref])
    IN  IF total = Zero
        THEN [heap |-> h, stats |-> ZeroStats(st)]
        ELSE LET copy   == SpreadCopy(h, ref)
                 sorted == SortDesc(copy.heap[copy.ref])
                 c      == CountLoop(sorted, total, 1, Zero,
                                     [e50 |-> 0, e90 |-> 0, e99 |-> 0])
             IN  [heap  |-> [copy.heap EXCEPT ![copy.ref] = sorted],
                  stats |-> [e50 |-> Width(c.e50, st),
                             e90 |-> Width(c.e90, st),
                             e99 |-> Width(c.e99, st)]]

(***************************************************************************)
(* App: exportBRDF                                                         *)
(***************************************************************************)
\* fullScattering.map(d => `${d.angle.toFixed(3)},${d.intensity.toFixed(8)}`)
ExportRows(d) ==
    [i \in 1..Len(d) |->
        [angle     |-> AngleToFixed(d[i].angle, 3),
         intensity |-> ToFixed(d[i].intensity, 8)]]

\* the values Math.random() takes in generateSurfaceProfile
ProfileRandoms == {Zero, F(5000, -4), F(9999, -4)}

\* const alpha = 0.15
Alpha == F(1500, -4)

\* const rq = ra * 1.25
Rq(ra) == FMul(ra, F(1250, -3))

\* const noise = (Math.random() - 0.5) * 4 * rq
Noise(rq, random) == FMul(FMul(FSub(random, F(5000, -4)), FromInt(4)), rq)

\* a value that adds the noise to prev, both unweighted
ValUndamped(previous, noise) == FAdd(previous, noise)

\* const val = prev * (1 - alpha) + noise * alpha
Val(previous, noise) ==
    FAdd(FMul(previous, FSub(FromInt(1), Alpha)), FMul(noise, Alpha))

(***************************************************************************)
(* utils/physics: generateSurfaceProfile3D                                 *)
(***************************************************************************)
\* the values Math.random() takes in the model: 0 and 0.75
RandomValues == {Zero, F(7500, -4)}

\* let height = (Math.random() - 0.5) * 2 * rq, with rq = ra * 1.25
Height(ra, random) ==
    FMul(FMul(FSub(random, F(5000, -4)), FromInt(2)), FMul(ra, F(1250, -3)))

\* if (ni >= 0 && ni < size && nj >= 0 && nj < size), on 1-based indices
InBounds(n, ni, nj) == ni >= 1 /\ ni <= n /\ nj >= 1 /\ nj <= n

\* the two loops over di and dj, k = 0..8 numbering (di, dj) in their order:
\* the sum and the count they leave
RECURSIVE Window(_, _, _, _, _, _)
Window(g, n, i, j, k, acc) ==
    IF k > 8 THEN acc
    ELSE LET ni == i + (k \div 3) - 1
             nj == j + (k % 3) - 1
         IN  IF InBounds(n, ni, nj)
             THEN Window(g, n, i, j, k + 1,
                         [sum |-> FAdd(acc.sum, g[ni][nj]), count |-> acc.count + 1])
             ELSE Window(g, n, i, j, k + 1, acc)

\* a cell averaged over a window padded with zeros: always 9 cells
SmoothCellPadded(g, n, i, j) ==
    FDiv(Window(g, n, i, j, 0, [sum |-> Zero, count |-> 0]).sum, FromInt(9))

\* smoothed[i][j] = sum / count
SmoothCell(g, n, i, j) ==
    LET w == Window(g, n, i, j, 0, [sum |-> Zero, count |-> 0])
    IN  FDiv(w.sum, FromInt(w.count))

(***************************************************************************)
(* App: the roughness controls                                             *)
(***************************************************************************)
\* const raMinUm = 0.000001; const raMaxUm = 3.2
raMinUm == F(1000, -9)

raMaxUm == F(3200, -3)

\* Math.log10(raMinUm), Math.log10(raMaxUm): -6 and 0.505149978319906
raLogMin == FromInt(-6)

raLogMax == F(5051, -4)

\* the values e.target.value takes at the slider: its min, its max and three
\* values between them
SliderTexts == {"-6", "-3", "0", "0.5", "0.505149978319906"}

\* the values e.target.value takes at the text input, in nanometres
InputTexts == {"", "abc", "0", "0.0005", "800", "5000"}

NaN == [nan |-> TRUE, value |-> Zero]

Num(x) == [nan |-> FALSE, value |-> x]

\* parseFloat(e.target.value)
ParseFloat(text) ==
    CASE text = "-6"                -> Num(raLogMin)
      [] text = "-3"                -> Num(FromInt(-3))
      [] text = "0"                 -> Num(Zero)
      [] text = "0.5"               -> Num(F(5000, -4))
      [] text = "0.505149978319906" -> Num(raLogMax)
      [] text = "0.0005"            -> Num(F(5000, -7))
      [] text = "800"               -> Num(FromInt(800))
      [] text = "5000"              -> Num(FromInt(5000))
      [] OTHER                      -> NaN

\* Math.pow(10, x) at the values of the slider.  In IEEE doubles
\* Math.pow(10, Math.log10(3.2)) is 3.2000000000000006, the number next
\* above 3.2: here the number next above 3.200
MathPow10(x) ==
    CASE x = raLogMin      -> F(1000, -9)
      [] x = FromInt(-3)   -> F(1000, -6)
      [] x = Zero          -> FromInt(1)
      [] x = F(5000, -4)   -> F(3162, -3)
      [] x = raLogMax      -> F(3201, -3)

\* Math.min
FMin(x, y) == IF FLt(y, x) THEN y ELSE x

\* Math.min(Math.max(valUm, raMinUm), raMaxUm)
Clamp(valUm) == FMin(FMax(valUm, raMinUm), raMaxUm)

(***************************************************************************)
(* services: analyzeSurfaceModel, and App.handleAIAnalysis                 *)
(***************************************************************************)
\* what ai.models.generateContent does: it rejects, or it resolves with a
\* response whose text is a JSON object or is not
Responses ==
    { [ok |-> FALSE, text |-> ""],
      [ok |-> TRUE, text |-> "{Beckmann}"],
      [ok |-> TRUE, text |-> "{Harvey-Shack}"],
      [ok |-> TRUE, text |-> "Beckmann"] }

\* JSON.parse(response.text): the object, or a SyntaxError
JsonParse(text) ==
    CASE text = "{Beckmann}"     -> [ok |-> TRUE, value |-> "Beckmann"]
      [] text = "{Harvey-Shack}" -> [ok |-> TRUE, value |-> "Harvey-Shack"]
      [] OTHER                   -> [ok |-> FALSE, value |-> "SyntaxError"]

\* the promise of analyzeSurfaceModel: resolved with the parsed object, or
\* rejected (by generateContent, or with "Failed to parse AI response")
AnalyzeSurfaceModel(response) ==
    IF ~response.ok THEN [ok |-> FALSE, value |-> "Error"]
    ELSE IF JsonParse(response.text).ok THEN JsonParse(response.text)
    ELSE [ok |-> FALSE, value |-> "Failed to parse AI response"]

\* a handler that calls setLoading(false) after setAnalysis only
ContinuationNoFinally(settled, current) ==
    [analysis |-> IF settled.ok THEN settled.value ELSE current,
     loading  |-> ~settled.ok]

\* handleAIAnalysis after the await: setAnalysis(result) or the catch, then
\* finally setLoading(false)
Continuation(settled, current) ==
    [analysis |-> IF settled.ok THEN settled.value ELSE current,
     loading  |-> FALSE]

(***************************************************************************)
(* State                                                                   *)
(***************************************************************************)
VARIABLES
    params,          \* App: the params state (the arguments of the engine)
    step,            \* App: SIMULATION_STEP, in 10^-5 degree
    pending,         \* App: the effect updateVisualization has yet to run
    pc,              \* "idle", or "sweep" inside calculateScattering
    a,               \* calculateScattering: the loop variable, in 10^-5 degree
    activeModel,     \* calculateScattering: activeModel
    branches,        \* the branch each iteration of the sweep evaluated
    heap,            \* the arrays of samples, by reference
    data,            \* calculateScattering: the reference held by data
    fullScattering,  \* App: the reference held by the fullScattering state
    returned,        \* the references calculateScattering has returned
    calls,           \* the calls of calculateScattering so far
    energyStats,     \* App: the energyStats memo
    statsFor,        \* the fullScattering the memo was computed for
    csvRows,         \* exportBRDF: the rows of the file
    csvFor,          \* the fullScattering the rows were written from
    size,            \* generateSurfaceProfile3D: size
    gpc,             \* generateSurfaceProfile3D: "fill", "smooth" or "done"
    grid,            \* generateSurfaceProfile3D: grid, the rows filled so far
    smoothed,        \* generateSurfaceProfile3D: smoothed, the grid returned
    fa,              \* calculateScattering: the loop variable a, as a number
    fstep,           \* calculateScattering: step, as a number
    iterations,      \* the iterations of the sweep's loop so far
    lpc,             \* the sweep's loop: "loop", "done", or "off"
    length,          \* generateSurfaceProfile: length
    points,          \* generateSurfaceProfile: points
    prev,            \* generateSurfaceProfile: prev
    idx,             \* generateSurfaceProfile: the loop variable i
    ppc,             \* generateSurfaceProfile: "loop" or "done"
    raInput,         \* App: the text of the last roughness event
    loading,         \* App: the loading state
    analysis,        \* App: the analysis state
    request          \* handleAIAnalysis: the call of analyzeSurfaceModel

appVars == <<params, step, pending, pc, a, activeModel, branches, heap, data,
             fullScattering, returned, calls, energyStats, statsFor, csvRows, csvFor>>

gridVars == <<size, gpc, grid, smoothed>>

loopVars == <<fa, fstep, iterations, lpc>>

profileVars == <<length, points, prev, idx, ppc>>

uiVars == <<raInput, loading, analysis, request>>

vars == <<appVars, gridVars, loopVars, profileVars, uiVars>>

\* the number of engine calls a behaviour of Spec makes
MaxCalls == 2

\* the number of samples of a distribution given to the statistics directly
MaxLen == 4

\* the largest intensity of such a distribution
MaxIntensity == 3

RaValues == {F(5000, -10), F(6366, -6), F(2465, -4), F(8000, -4)}

Lambdas == {F(5000, -4), F(1000, -3)}

Thetas == {0, 45 * Deg, 90 * Deg}

Steps == {45 * Deg, 60 * Deg, 70 * Deg}

Reflectivities == {Zero, F(9000, -4), FromInt(1)}

SlopeFactors == {FromInt(1), FromInt(3)}

\* every argument list of calculateScattering the model draws from
ParamSpace ==
    [ra : RaValues, lambda : Lambdas, thetaInc : Thetas, modelType : ModelTypes,
     reflectivity : Reflectivities, slopeFactor : SlopeFactors]

\* App: the initial params state
DefaultParams ==
    [ra |-> F(8000, -4), lambda |-> F(5000, -4), thetaInc |-> 0,
     modelType |-> "Auto", reflectivity |-> F(9000, -4),
     slopeFactor |-> FromInt(1)]

NoStats == [e50 |-> Zero, e90 |-> Zero, e99 |-> Zero]

\* no call of generateSurfaceProfile3D
NoGrid == size = 0 /\ gpc = "done" /\ grid = <<>> /\ smoothed = <<>>

\* no run of the sweep's loop on its own
NoLoop == fa = Zero /\ fstep = Zero /\ iterations = 0 /\ lpc = "off"

\* no call of generateSurfaceProfile
NoProfile ==
    length = 0 /\ points = <<>> /\ prev = Zero /\ idx = 0 /\ ppc = "done"

\* App: useState(null), useState(false); no roughness event, no request
InitUi ==
    /\ raInput = [handler |-> "none", text |-> ""]
    /\ loading = FALSE
    /\ analysis = "null"
    /\ request = [state |-> "none", response |-> [ok |-> FALSE, text |-> ""]]

\* the App after construction, with fullScattering = [] at reference 1
InitApp(p, st) ==
    /\ InitUi
    /\ params = p
    /\ step = st
    /\ pending = TRUE
    /\ pc = "idle"
    /\ a = 0
    /\ activeModel = p.modelType
    /\ branches = <<>>
    /\ heap = << <<>> >>
    /\ data = 0
    /\ fullScattering = 1
    /\ returned = {}
    /\ calls = 0
    /\ energyStats = NoStats
    /\ statsFor = 0
    /\ csvRows = <<>>
    /\ csvFor = 0

(***************************************************************************)
(* Actions                                                                 *)
(***************************************************************************)
\* App.updateVisualization calls calculateScattering, which runs up to its loop
UpdateVisualization ==
    /\ pc = "idle"
    /\ pending
    /\ pc' = "sweep"
    /\ activeModel' = ResolveModel(params.modelType,
                                   GParam(params.ra, params.lambda, params.thetaInc))
    /\ heap' = Append(heap, <<>>)
    /\ data' = Len(heap) + 1
    /\ a' = -90 * Deg
    /\ branches' = <<>>
    /\ calls' = calls + 1
    /\ UNCHANGED <<gridVars, loopVars, profileVars, uiVars>>
    /\ UNCHANGED <<params, step, pending, fullScattering, returned, energyStats,
                   statsFor, csvRows, csvFor>>

\* one iteration of for (let a = -90; a <= 90; a += step)
SweepIter ==
    /\ pc = "sweep"
    /\ a <= 90 * Deg
    /\ heap' = [heap EXCEPT ![data] = Append(@, Sample(activeModel, params, step, a))]
    /\ branches' = Append(branches, Branch(activeModel))
    /\ a' = a + step
    /\ UNCHANGED <<gridVars, loopVars, profileVars, uiVars>>
    /\ UNCHANGED <<params, step, pending, pc, activeModel, data, fullScattering,
                   returned, calls, energyStats, statsFor, csvRows, csvFor>>

\* the loop ends; calculateScattering returns data.map(...), and
\* updateVisualization stores it with setFullScattering
SweepExit ==
    /\ pc = "sweep"
    /\ ~(a <= 90 * Deg)
    /\ heap' = Append(heap, Normalized(heap[data], params.reflectivity))
    /\ fullScattering' = Len(heap) + 1
    /\ returned' = returned \cup {Len(heap) + 1}
    /\ pending' = FALSE
    /\ pc' = "idle"
    /\ UNCHANGED <<gridVars, loopVars, profileVars, uiVars>>
    /\ UNCHANGED <<params, step, a, activeModel, branches, data, calls,
                   energyStats, statsFor, csvRows, csvFor>>

\* App: the energyStats memo, recomputed when fullScattering has changed
EnergyStats ==
    /\ pc = "idle"
    /\ statsFor # fullScattering
    /\ LET r == CalculateEnergyConcentration(heap, fullScattering, FromAngle(step))
       IN  /\ heap' = r.heap
           /\ energyStats' = r.stats
    /\ statsFor' = fullScattering
    /\ UNCHANGED <<gridVars, loopVars, profileVars, uiVars>>
    /\ UNCHANGED <<params, step, pending, pc, a, activeModel, branches, data,
                   fullScattering, returned, calls, csvRows, csvFor>>

\* App.exportBRDF
ExportBRDF ==
    /\ pc = "idle"
    /\ csvFor # fullScattering
    /\ csvRows' = ExportRows(heap[fullScattering])
    /\ csvFor' = fullScattering
    /\ UNCHANGED <<gridVars, loopVars, profileVars, uiVars>>
    /\ UNCHANGED <<params, step, pending, pc, a, activeModel, branches, heap, data,
                   fullScattering, returned, calls, energyStats, statsFor>>

\* App: the model select and the reflectivity slider call setParams
SetParams ==
    /\ pc = "idle"
    /\ ~pending
    /\ calls < MaxCalls
    /\ \/ \E t \in ModelTypes \ {params.modelType} :
              params' = [params EXCEPT !.modelType = t]
       \/ \E r \in Reflectivities \ {params.reflectivity} :
              params' = [params EXCEPT !.reflectivity = r]
    /\ pending' = TRUE
    /\ UNCHANGED <<gridVars, loopVars, profileVars, uiVars>>
    /\ UNCHANGED <<step, pc, a, activeModel, branches, heap, data, fullScattering,
                   returned, calls, energyStats, statsFor, csvRows, csvFor>>

\* App: the roughness slider,
\* onChange={(e) => setParams({...params, ra: Math.pow(10, parseFloat(e.target.value))})}
HandleRaSlider ==
    /\ pc = "idle"
    /\ ~pending
    /\ calls < MaxCalls
    /\ \E text \in SliderTexts :
           LET ra == MathPow10(ParseFloat(text).value)
           IN  /\ raInput' = [handler |-> "slider", text |-> text]
               /\ params' = [params EXCEPT !.ra = ra]
               /\ pending' = (ra # params.ra)
    /\ UNCHANGED <<loading, analysis, request>>
    /\ UNCHANGED <<gridVars, loopVars, profileVars>>
    /\ UNCHANGED <<step, pc, a, activeModel, branches, heap, data, fullScattering,
                   returned, calls, energyStats, statsFor, csvRows, csvFor>>

\* App.handleRaInputChange
HandleRaInputChange ==
    /\ pc = "idle"
    /\ ~pending
    /\ calls < MaxCalls
    /\ \E text \in InputTexts :
           LET valNm == ParseFloat(text)
               valUm == FDiv(valNm.value, FromInt(1000))
           IN  /\ raInput' = [handler |-> "input", text |-> text]
               /\ IF ~valNm.nan
                  THEN /\ params' = [params EXCEPT !.ra = Clamp(valUm)]
                       /\ pending' = (Clamp(valUm) # params.ra)
                  ELSE UNCHANGED <<params, pending>>
    /\ UNCHANGED <<loading, analysis, request>>
    /\ UNCHANGED <<gridVars, loopVars, profileVars>>
    /\ UNCHANGED <<step, pc, a, activeModel, branches, heap, data, fullScattering,
                   returned, calls, energyStats, statsFor, csvRows, csvFor>>

\* App.handleAIAnalysis up to its await; the button is disabled while loading
HandleAIAnalysis ==
    /\ pc = "idle"
    /\ ~loading
    /\ loading' = TRUE
    /\ request' = [state |-> "pending", response |-> [ok |-> FALSE, text |-> ""]]
    /\ UNCHANGED <<raInput, analysis>>
    /\ UNCHANGED <<appVars, gridVars, loopVars, profileVars>>

\* the promise resolves and handleAIAnalysis runs to its end
AnalysisResolves ==
    /\ pc = "idle"
    /\ request.state = "pending"
    /\ \E response \in Responses :
           LET settled == AnalyzeSurfaceModel(response)
               after   == Continuation(settled, analysis)
           IN  /\ settled.ok
               /\ analysis' = after.analysis
               /\ loading' = after.loading
               /\ request' = [state |-> "resolved", response |-> response]
    /\ UNCHANGED raInput
    /\ UNCHANGED <<appVars, gridVars, loopVars, profileVars>>

\* the promise rejects and handleAIAnalysis runs to its end
AnalysisRejects ==
    /\ pc = "idle"
    /\ request.state = "pending"
    /\ \E response \in Responses :
           LET settled == AnalyzeSurfaceModel(response)
               after   == Continuation(settled, analysis)
           IN  /\ ~settled.ok
               /\ analysis' = after.analysis
               /\ loading' = after.loading
               /\ request' = [state |-> "rejected", response |-> response]
    /\ UNCHANGED raInput
    /\ UNCHANGED <<appVars, gridVars, loopVars, profileVars>>

(***************************************************************************)
(* Specifications                                                          *)
(***************************************************************************)
\* the App: params start at their defaults and change through setParams
Init == NoGrid /\ NoLoop /\ NoProfile /\ \E st \in Steps : InitApp(DefaultParams, st)

Next ==
    \/ UpdateVisualization
    \/ SweepIter
    \/ SweepExit
    \/ EnergyStats
    \/ ExportBRDF
    \/ SetParams
    \/ HandleRaSlider
    \/ HandleRaInputChange

Spec == Init /\ [][Next]_vars

\* the App's first render and its calls of handleAIAnalysis, which share no
\* state with the controls
NextLive ==
    \/ UpdateVisualization
    \/ SweepIter
    \/ SweepExit
    \/ HandleAIAnalysis
    \/ AnalysisResolves
    \/ AnalysisRejects

\* a step of a started call of calculateScattering, by what it does to the
\* loop variable and to pc: an iteration, or the return
SweepRuns ==
    pc = "sweep" /\ ((a' = a + step /\ pc' = pc) \/ (pc' = "idle" /\ a' = a))

\* the same when a started call of calculateScattering runs on (it is
\* synchronous code) and every call of analyzeSurfaceModel settles: the
\* promise is resolved or rejected, and the event loop then runs the rest of
\* the handler
SpecLive ==
    /\ Init
    /\ [][NextLive]_vars
    /\ WF_<<pc, a>>(SweepRuns)
    /\ WF_vars(AnalysisResolves \/ AnalysisRejects)

\* one call of the engine for every argument list of ParamSpace
InitScatter == NoGrid /\ NoLoop /\ NoProfile /\ \E p \in ParamSpace, st \in Steps : InitApp(p, st)

NextScatter ==
    \/ UpdateVisualization
    \/ SweepIter
    \/ SweepExit
    \/ EnergyStats
    \/ ExportBRDF

SpecScatter == InitScatter /\ [][NextScatter]_vars

\* calculateScattering(0.8, 0.5, 0, 'Harvey-Shack', 1, 0.9, 1.0)
ScenarioParams ==
    [ra |-> F(8000, -4), lambda |-> F(5000, -4), thetaInc |-> 0,
     modelType |-> "Harvey-Shack", reflectivity |-> F(9000, -4),
     slopeFactor |-> FromInt(1)]

InitScenario == NoGrid /\ NoLoop /\ NoProfile /\ InitApp(ScenarioParams, Deg)

NextScenario ==
    \/ UpdateVisualization
    \/ SweepIter
    \/ SweepExit

SpecScenario == InitScenario /\ [][NextScenario]_vars

\* the steps of the sweep's loop on its own: 45, 1, 9.001 and 0.001 degrees
LoopSteps == {F(4500, -2), FromInt(1), F(9001, -3), F(1000, -6)}

\* the iterations of the loop a behaviour of SpecLoop follows
MaxIter == 200

\* one iteration of for (let a = -90; a <= 90; a += step): the body does not
\* write a or step, and a += step is a floating-point addition
LoopIter ==
    /\ lpc = "loop"
    /\ FLe(fa, FromInt(90))
    /\ iterations < MaxIter
    /\ iterations' = iterations + 1
    /\ fa' = FAdd(fa, fstep)
    /\ UNCHANGED <<fstep, lpc>>
    /\ UNCHANGED <<appVars, gridVars, profileVars, uiVars>>

\* the test a <= 90 fails and the loop ends
LoopExit ==
    /\ lpc = "loop"
    /\ ~FLe(fa, FromInt(90))
    /\ lpc' = "done"
    /\ UNCHANGED <<fa, fstep, iterations>>
    /\ UNCHANGED <<appVars, gridVars, profileVars, uiVars>>

\* let a = -90, for every step of LoopSteps
InitLoop ==
    /\ InitApp(DefaultParams, 45 * Deg)
    /\ NoGrid
    /\ NoProfile
    /\ fa = FromInt(-90)
    /\ fstep \in LoopSteps
    /\ iterations = 0
    /\ lpc = "loop"

NextLoop == LoopIter \/ LoopExit

SpecLoop == InitLoop /\ [][NextLoop]_vars

\* the steps given to calculateEnergyConcentration directly: 0.00004, 0.001, 0.5
EnergySteps == {4, 100, 50000}

\* the distributions of at most MaxLen samples, with whole intensities
Distributions(st) ==
    UNION { { [i \in 1..n |-> [angle     |-> -90 * Deg + (i - 1) * st,
                               intensity |-> FromInt(f[i])]] :
              f \in [1..n -> 0..MaxIntensity] } : n \in 0..MaxLen }

\* the App holding the distribution d, its statistics not yet computed
InitStats(st, d) ==
    /\ params = DefaultParams
    /\ step = st
    /\ pending = FALSE
    /\ pc = "idle"
    /\ a = 0
    /\ activeModel = "Auto"
    /\ branches = <<>>
    /\ heap = <<d>>
    /\ data = 0
    /\ fullScattering = 1
    /\ returned = {}
    /\ calls = 0
    /\ energyStats = NoStats
    /\ statsFor = 0
    /\ csvRows = <<>>
    /\ csvFor = 0
    /\ InitUi
    /\ NoGrid
    /\ NoLoop
    /\ NoProfile

\* calculateEnergyConcentration on every distribution of Distributions
InitEnergy == \E st \in EnergySteps : \E d \in Distributions(st) : InitStats(st, d)

NextEnergy == EnergyStats

SpecEnergy == InitEnergy /\ [][NextEnergy]_vars

\* intensities whose sums need more digits than a number holds
LargeAndSmall == {FromInt(5000), FromInt(4)}

\* the distributions of at most MaxLen such samples, in every order
OrderedDistributions(st) ==
    UNION { { [i \in 1..n |-> [angle     |-> -90 * Deg + (i - 1) * st,
                               intensity |-> f[i]]] :
              f \in [1..n -> LargeAndSmall] } : n \in 0..MaxLen }

\* calculateEnergyConcentration on every distribution of OrderedDistributions
InitOrder ==
    \E st \in EnergySteps : \E d \in OrderedDistributions(st) : InitStats(st, d)

NextOrder == EnergyStats

SpecOrder == InitOrder /\ [][NextOrder]_vars

\* the largest size given to generateSurfaceProfile3D
MaxSize == 3

\* one iteration of the inner loop that fills grid: grid[i][j] = height
FillCell ==
    /\ gpc = "fill"
    /\ \E random \in RandomValues :
           LET height == Height(params.ra, random)
               filled == IF grid = <<>> \/ Len(grid[Len(grid)]) = size
                         THEN Append(grid, <<height>>)
                         ELSE [grid EXCEPT ![Len(grid)] = Append(@, height)]
           IN  /\ grid' = filled
               /\ gpc' = IF Len(filled) = size /\ Len(filled[size]) = size
                         THEN "smooth" ELSE "fill"
    /\ UNCHANGED <<size, smoothed>>
    /\ UNCHANGED <<appVars, loopVars, profileVars, uiVars>>

\* the loops that fill smoothed, and return smoothed
Smooth ==
    /\ gpc = "smooth"
    /\ smoothed' = [i \in 1..size |-> [j \in 1..size |-> SmoothCell(grid, size, i, j)]]
    /\ gpc' = "done"
    /\ UNCHANGED <<size, grid>>
    /\ UNCHANGED <<appVars, loopVars, profileVars, uiVars>>

\* generateSurfaceProfile3D(params.ra, size) for every size up to MaxSize
InitGrid ==
    /\ InitApp(DefaultParams, 45 * Deg)
    /\ size \in 1..MaxSize
    /\ gpc = "fill"
    /\ grid = <<>>
    /\ smoothed = <<>>
    /\ NoLoop
    /\ NoProfile

NextGrid == FillCell \/ Smooth

SpecGrid == InitGrid /\ [][NextGrid]_vars

\* the lengths given to generateSurfaceProfile
MaxPoints == 4

\* one iteration of for (let i = 0; i < length; i++)
ProfileIter ==
    /\ ppc = "loop"
    /\ idx < length
    /\ \E random \in ProfileRandoms :
           LET val == Val(prev, Noise(Rq(params.ra), random))
           IN  /\ points' = Append(points, [x |-> idx, y |-> val])
               /\ prev' = val
    /\ idx' = idx + 1
    /\ UNCHANGED <<length, ppc>>
    /\ UNCHANGED <<appVars, gridVars, loopVars, uiVars>>

\* the test i < length fails: return points
ProfileReturn ==
    /\ ppc = "loop"
    /\ ~(idx < length)
    /\ ppc' = "done"
    /\ UNCHANGED <<length, points, prev, idx>>
    /\ UNCHANGED <<appVars, gridVars, loopVars, uiVars>>

\* generateSurfaceProfile(ra, length) for every ra of RaValues and every
\* length up to MaxPoints
InitProfile ==
    /\ \E r \in RaValues : InitApp([DefaultParams EXCEPT !.ra = r], 45 * Deg)
    /\ NoGrid
    /\ NoLoop
    /\ length \in 1..MaxPoints
    /\ points = <<>>
    /\ prev = Zero
    /\ idx = 0
    /\ ppc = "loop"

NextProfile == ProfileIter \/ ProfileReturn

SpecProfile == InitProfile /\ [][NextProfile]_vars

(***************************************************************************)
(* Properties                                                              *)
(***************************************************************************)
\* a call of calculateScattering has returned and its result is stored
Returned == pc = "idle" /\ ~pending /\ calls > 0

\* the raw (pre-normalization) samples of the last call, and its result
Raw == heap[data]

Out == heap[fullScattering]

AllZero(d) == \A i \in DOMAIN d : d[i].intensity = Zero

\* C1: with reflectivity in [0,1], the maximum intensity over the returned
\* samples equals reflectivity, unless every raw intensity is 0, and then
\* every returned intensity is 0.
C1_MaxIsReflectivity ==
    Returned =>
        IF AllZero(Raw) THEN AllZero(Out)
        ELSE /\ \E i \in DOMAIN Out : Out[i].intensity = params.reflectivity
             /\ \A i \in DOMAIN Out : FLe(Out[i].intensity, params.reflectivity)

\* a returned distribution whose peak is the reflectivity 0.9 and that holds
\* a sample below it
C1_Witness ==
    /\ Returned
    /\ ~AllZero(Raw)
    /\ params.reflectivity = F(9000, -4)
    /\ \E i \in DOMAIN Out : FLt(Out[i].intensity, params.reflectivity)
    /\ \E i \in DOMAIN Out : FGt(Raw[i].intensity, FromInt(1))

\* a returned distribution all of whose raw intensities were 0
C1_WitnessAllZero == Returned /\ AllZero(Raw) /\ params.reflectivity # Zero

\* the regime parameter of the current arguments
G == GParam(params.ra, params.lambda, params.thetaInc)

\* every iteration of the sweep so far evaluated the model m
Evaluated(m) == activeModel = m /\ \A i \in DOMAIN branches : branches[i] = m

\* C3: with modelType Auto the model evaluated is Rayleigh-Rice if g < 0.01,
\* Beckmann if g > 15 and Harvey-Shack otherwise (g = 0.01 and g = 15
\* included); any other modelType is evaluated as given, for every g.
C3_ModelResolution ==
    (pc = "sweep" \/ Returned) =>
        /\ (params.modelType = "Auto" /\ FLt(G, F(1000, -5)))
               => Evaluated("Rayleigh-Rice")
        /\ (params.modelType = "Auto" /\ FGt(G, FromInt(15)))
               => Evaluated("Beckmann")
        /\ (params.modelType = "Auto" /\ FGe(G, F(1000, -5)) /\ FLe(G, FromInt(15)))
               => Evaluated("Harvey-Shack")
        /\ params.modelType # "Auto" => Evaluated(params.modelType)

\* a finished Auto sweep with g exactly 0.01
C3_Witness ==
    /\ Returned
    /\ params.modelType = "Auto"
    /\ G = F(1000, -5)
    /\ branches # <<>>

\* a finished Auto sweep with g exactly 15
C3_WitnessUpper ==
    /\ Returned
    /\ params.modelType = "Auto"
    /\ G = FromInt(15)
    /\ branches # <<>>

\* C4: for every step > 0 the samples are in strictly ascending angle order
\* and cover [-90, 90]: the first is at -90, the last at 90, and consecutive
\* samples differ by step.
C4_SweepCoversRange ==
    Returned =>
        /\ Out # <<>>
        /\ Out[1].angle = -90 * Deg
        /\ Out[Len(Out)].angle = 90 * Deg
        /\ \A i \in 1..(Len(Out) - 1) :
               /\ Out[i].angle < Out[i + 1].angle
               /\ Out[i + 1].angle - Out[i].angle = step

\* C5: under the Beckmann model every sampled angle a with cos(a) <= 0
\* (|a| >= 90 degrees) has raw intensity exactly 0, for every incident
\* angle, ra and slopeFactor.
C5_BeckmannShadowing ==
    pc = "sweep" =>
        \A i \in DOMAIN Raw :
            (branches[i] = "Beckmann" /\ Abs(Raw[i].angle) >= 90 * Deg)
                => Raw[i].intensity = Zero

\* the rows of an export parsed back: Number of each column
ParseRows(rows) ==
    [i \in 1..Len(rows) |->
        [angle     |-> AngleOfFixed(rows[i].angle, 3),
         intensity |-> NumberOfFixed(rows[i].intensity, 8)]]

\* C9: parsing the angle and intensity columns written by exportBRDF gives
\* back exactly the distribution the engine produced.
C9_ExportRoundTrip ==
    (csvFor = fullScattering /\ csvFor \in returned)
        => ParseRows(csvRows) = Out

\* C10: calculateEnergyConcentration leaves the array passed to it as it was,
\* and every call of calculateScattering builds new arrays: no step changes
\* an array that a call has returned, and the array a call returns (and the
\* one it fills) did not exist before.
C10_ArraysNotShared ==
    [][ /\ \A r \in returned \cup {1} : heap'[r] = heap[r]
        /\ fullScattering' # fullScattering => fullScattering' \notin DOMAIN heap
        /\ data' # data => data' \notin DOMAIN heap ]_vars

\* descending in intensity: a sort would leave d as it is
Descending(d) ==
    \A i \in 1..(Len(d) - 1) : FGe(d[i].intensity, d[i + 1].intensity)

\* two calls have returned different distributions, and the statistics of
\* the second, which is not in descending order, have been computed
C10_Witness ==
    /\ Cardinality(returned) = 2
    /\ \E r \in returned : heap[r] # Out
    /\ statsFor = fullScattering
    /\ ~Descending(Out)
    /\ energyStats.e99 # Zero

\* the whole intensity of a sample of Distributions
Whole(x) == Floor(x.intensity)

RECURSIVE SumOver(_, _)
SumOver(d, S) ==
    IF S = {} THEN 0
    ELSE LET i == CHOOSE j \in S : TRUE
         IN  Whole(d[i]) + SumOver(d, S \ {i})

\* the sum of the k largest intensities of d
TopSum(d, k) ==
    LET sums == { SumOver(d, S) : S \in { T \in SUBSET DOMAIN d : Cardinality(T) = k } }
    IN  CHOOSE x \in sums : \A y \in sums : y <= x

\* the smallest k such that the k largest intensities sum to at least pct %
\* of the total
LeastCount(d, pct) ==
    CHOOSE k \in 1..Len(d) :
        /\ 100 * TopSum(d, k) >= pct * SumOver(d, DOMAIN d)
        /\ \A j \in 1..(k - 1) : 100 * TopSum(d, j) < pct * SumOver(d, DOMAIN d)

\* the statistics of fullScattering have been computed
StatsDone == statsFor = fullScattering

PositiveTotal(d) == SumOver(d, DOMAIN d) > 0

\* C2: for every distribution whose intensities sum to total > 0 the widths
\* returned satisfy e50 <= e90 <= e99.
C2_WidthsOrdered ==
    (StatsDone /\ PositiveTotal(Out)) =>
        /\ FLe(energyStats.e50, energyStats.e90)
        /\ FLe(energyStats.e90, energyStats.e99)

\* statistics with three different widths
C2_Witness ==
    /\ StatsDone
    /\ PositiveTotal(Out)
    /\ FLt(energyStats.e50, energyStats.e90)
    /\ FLt(energyStats.e90, energyStats.e99)

Rounded4(count, st) == Norm(RoundDiv(count * st, 10), -4)

C7_ZeroTotalGivesZeros ==
    (StatsDone /\ ~PositiveTotal(Out)) =>
        energyStats = [e50 |-> Zero, e90 |-> Zero, e99 |-> Zero]

\* the statistics of a distribution of samples that are all 0
C7_Witness == StatsDone /\ Out # <<>> /\ AllZero(Out)

\* the statistics of the empty distribution
C7_WitnessEmpty == StatsDone /\ Out = <<>>

\* the cells of the 3x3 window of (i, j) that lie in the grid
Neighbours(i, j) ==
    { c \in (1..size) \X (1..size) : Abs(c[1] - i) <= 1 /\ Abs(c[2] - j) <= 1 }

RECURSIVE TenthsOver(_)
\* the sum of the raw cells of S, in tenths (the heights of the model are
\* whole tenths)
TenthsOver(S) ==
    IF S = {} THEN 0
    ELSE LET c == CHOOSE x \in S : TRUE
         IN  Scaled(grid[c[1]][c[2]], 1) + TenthsOver(S \ {c})

\* the mean of the raw cells of the window of (i, j), taken over n cells
MeanOver(i, j, n) == FDiv(Norm(TenthsOver(Neighbours(i, j)), -1), FromInt(n))

OnBorder(i) == i = 1 \/ i = size

\* 4 for a corner cell, 6 for an edge cell, 9 for an interior cell
CellsByPosition(i, j) ==
    IF OnBorder(i) /\ OnBorder(j) THEN 4
    ELSE IF OnBorder(i) \/ OnBorder(j) THEN 6
    ELSE 9

\* C8 as claimed: for every size > 0 each returned cell is the mean of the
\* raw cells of its 3x3 window that lie in the grid: of exactly 4 raw cells
\* for a corner cell, 6 for an edge cell, 9 for an interior cell.
C8_MeanOfFourSixNine ==
    gpc = "done" =>
        \A i \in 1..size, j \in 1..size :
            smoothed[i][j] = MeanOver(i, j, CellsByPosition(i, j))

\* C8 as amended: the same for every size >= 2; for size = 1 the only cell
\* is the mean of exactly 1 raw cell, itself.
C8_MeanOfInBoundsCells ==
    gpc = "done" =>
        \A i \in 1..size, j \in 1..size :
            /\ smoothed[i][j] = MeanOver(i, j, Cardinality(Neighbours(i, j)))
            /\ Cardinality(Neighbours(i, j)) =
                   IF size = 1 THEN 1 ELSE CellsByPosition(i, j)

\* a smoothed 3x3 grid whose raw cells differ, no window summing to 0
C8_Witness ==
    /\ gpc = "done"
    /\ size = 3
    /\ grid[1][1] # grid[2][2]
    /\ grid[1][2] # grid[3][3]
    /\ \A i \in 1..size, j \in 1..size : smoothed[i][j] # Zero

\* C11: calculateScattering(0.8, 0.5, 0, 'Harvey-Shack', 1, 0.9, 1.0) returns
\* 181 samples, at -90, -89, ..., 90 degrees; the sample at 0 has intensity
\* 0.9, every other sample has less, and the intensity decreases from each
\* sample to the next one away from 0, on both sides.
C11_HarveyShackScenario ==
    Returned =>
        /\ Len(Out) = 181
        /\ \A i \in 1..181 : Out[i].angle = (i - 91) * Deg
        /\ Out[91].intensity = F(9000, -4)
        /\ \A i \in 1..181 : i # 91 => FLt(Out[i].intensity, Out[91].intensity)
        /\ \A i \in 1..90 : FLt(Out[i].intensity, Out[i + 1].intensity)
        /\ \A i \in 91..180 : FGt(Out[i].intensity, Out[i + 1].intensity)

\* C11: the scenario's call has returned its samples, the outermost of them
\* above 0 and below the peak
C11_Witness ==
    /\ Returned
    /\ params = ScenarioParams
    /\ step = Deg
    /\ Len(branches) = 181
    /\ \A i \in DOMAIN branches : branches[i] = "Harvey-Shack"
    /\ FGt(Out[1].intensity, Zero)
    /\ FGt(Out[181].intensity, Zero)
    /\ Out[91].angle = 0

\* floor(180 / st) + 1, in exact arithmetic (st.e <= 0)
ClaimedIterations(st) == (180 * Pow10(-st.e)) \div st.m + 1

\* C12: the sweep's loop makes floor(180 / step) + 1 iterations: never more,
\* and exactly that many when it has ended.
C12_LoopIterations ==
    /\ iterations <= ClaimedIterations(fstep)
    /\ lpc = "done" => iterations = ClaimedIterations(fstep)

\* the sequences that hold the samples of d in another order
Reorderings(d) ==
    { [i \in DOMAIN d |-> d[f[i]]] :
        f \in { g \in [DOMAIN d -> DOMAIN d] :
                   \A i, j \in DOMAIN d : g[i] = g[j] => i = j } }

\* C13: calculateEnergyConcentration returns the same {e50, e90, e99} for the
\* samples of the distribution given in any other order.
C13_OrderIndependent ==
    StatsDone =>
        \A d \in Reorderings(Out) :
            CalculateEnergyConcentration(<<d>>, 1, FromAngle(step)).stats = energyStats

\* |x|
Magnitude(x) == IF x.m < 0 THEN FNeg(x) ELSE x

C16_LoadingAndAnalysis ==
    /\ [](request.state = "pending" => loading)
    /\ [][(request.state # "pending" /\ request'.state = "pending") => loading']_vars
    /\ [][(request.state = "pending" /\ request'.state = "resolved")
            => /\ analysis' = JsonParse(request'.response.text).value
               /\ ~loading']_vars
    /\ [][(request.state = "pending" /\ request'.state = "rejected")
            => /\ analysis' = analysis
               /\ ~loading']_vars
    /\ (request.state = "pending") ~> ~loading

\* C16: a call has rejected after an earlier call had stored its result
C16_Witness ==
    /\ request.state = "rejected"
    /\ analysis # "null"
    /\ ~loading

\* C16: a call has resolved and a later one is awaiting
C16_WitnessPending ==
    /\ request.state = "pending"
    /\ analysis # "null"
    /\ loading

====
